---- MODULE Spec2Model ----
(***************************************************************************)
(* A model of static/js/main.js, the chat widget of aria-nlp: the textarea *)
(* auto-resize helper, sendQuery with its pending fetch, the HTML          *)
(* post-processing of a response into build chips, and the chip clicks.    *)
(*                                                                         *)
(* Strings are sequences of symbols.  A symbol is one character, or, where *)
(* the code never looks inside it, one word or one HTML tag.               *)
(***************************************************************************)
EXTENDS Integers, Sequences, FiniteSets, TLC

VARIABLES
    inputPresent,   \* document.getElementById('q') is not null
    inputValue,     \* input.value
    height,         \* input.style.height in px: <<>> (never set) or <<n>>
    innerHeight,    \* window.innerHeight
    scrollHeight,   \* what input.scrollHeight reports with height 'auto'
    focusTimers,    \* pending setTimeout callbacks of the focus listener
    chat,           \* the children of #chat, in document order
    calls,          \* the sendQuery invocations that passed the blank test
    nextId,         \* identity of the next DOM node createElement returns
    mon             \* history: whether a query of white space only was
                    \* submitted, whether a blank query ever changed
                    \* something, the chip clicked last in each message

vars == <<inputPresent, inputValue, height, innerHeight, scrollHeight,
          focusTimers, chat, calls, nextId, mon>>

----------------------------------------------------------------------------
\* Bounds of the model.

\* sendQuery invocations with a non-blank query
MaxCalls == 2
\* focus timers pending at once
MaxTimers == 1

----------------------------------------------------------------------------
\* Characters and strings.

Whitespace == {" ", "\n", "\t"}

Digits == <<"0", "1", "2", "3", "4", "5", "6", "7", "8", "9">>

IsDigit(ch) == \E i \in 1..Len(Digits) : Digits[i] = ch

Upper == <<"A", "E", "H", "L", "M", "T", "X">>
Lower == <<"a", "e", "h", "l", "m", "t", "x">>

ToLowerChar(ch) ==
    IF \E i \in 1..Len(Upper) : Upper[i] = ch
    THEN Lower[CHOOSE i \in 1..Len(Upper) : Upper[i] = ch]
    ELSE ch

\* The mistake of comparing the header as it was sent.
ToLowerCaseForgotten(s) == s

ToLowerCase(s) == [i \in 1..Len(s) |-> ToLowerChar(s[i])]

Includes(s, needle) ==
    \E i \in 1..(Len(s) - Len(needle) + 1) :
        SubSeq(s, i, i + Len(needle) - 1) = needle

RECURSIVE TrimStart(_)
TrimStart(s) ==
    IF s # <<>> /\ Head(s) \in Whitespace THEN TrimStart(Tail(s)) ELSE s

RECURSIVE TrimEnd(_)
TrimEnd(s) ==
    IF s # <<>> /\ s[Len(s)] \in Whitespace
    THEN TrimEnd(SubSeq(s, 1, Len(s) - 1))
    ELSE s

Trim(s) == TrimEnd(TrimStart(s))

RECURSIVE NumberToString(_)
NumberToString(n) ==
    IF n < 10 THEN <<Digits[n + 1]>>
    ELSE NumberToString(n \div 10) \o <<Digits[(n % 10) + 1]>>

Min(a, b) == IF a <= b THEN a ELSE b

----------------------------------------------------------------------------
\* HTML as a sequence of symbols: tags and characters.

DivBuildOption == "<div class=build-option>"
DivClose == "</div>"
H4Open == "<h4>"
H4Close == "</h4>"
Tags == {DivBuildOption, DivClose, H4Open, H4Close, "<p>", "</p>"}

\* The bytes of main.js lines 87-88, read as the UTF-8 they are: the three
\* characters U+00E2 U+201A U+00B1 (what the peso sign U+20B1 looks like
\* after a wrong re-encoding), and U+00E2 U+20AC U+201D for the dash.
PesoSign == "U+20B1"
PricePrefix == <<"U+00E2", "U+201A", "U+00B1">>
PriceSeparator == <<" ", "U+00E2", "U+20AC", "U+201D", " ">>

\* DOMParser + querySelectorAll('.build-option'): the positions of the
\* opening tags, in document order.
RECURSIVE BuildDivsFrom(_, _)
BuildDivsFrom(html, i) ==
    IF i > Len(html) THEN <<>>
    ELSE (IF html[i] = DivBuildOption THEN <<i>> ELSE <<>>)
         \o BuildDivsFrom(html, i + 1)

BuildDivs(html) == BuildDivsFrom(html, 1)

\* The closing tag of the div opened before position j at nesting `depth`;
\* Len(html) + 1 when the parser has to close it at the end of the document.
RECURSIVE MatchClose(_, _, _)
MatchClose(html, j, depth) ==
    IF j > Len(html) THEN Len(html) + 1
    ELSE IF html[j] = DivBuildOption THEN MatchClose(html, j + 1, depth + 1)
    ELSE IF html[j] = DivClose
         THEN (IF depth = 1 THEN j ELSE MatchClose(html, j + 1, depth - 1))
    ELSE MatchClose(html, j + 1, depth)

\* div.outerHTML of the block opened at position i.
OuterHTML(html, i) ==
    LET j == MatchClose(html, i + 1, 1)
    IN  IF j <= Len(html) THEN SubSeq(html, i, j)
        ELSE SubSeq(html, i, Len(html)) \o <<DivClose>>

\* div.querySelector('h4'): the position of the first <h4> of the block, 0 if none.
QuerySelectorH4(div) ==
    IF \E i \in 1..Len(div) : div[i] = H4Open
    THEN CHOOSE i \in 1..Len(div) :
            div[i] = H4Open /\ \A k \in 1..(i - 1) : div[k] # H4Open
    ELSE 0

\* h4.textContent: the characters up to the closing tag, tags left out.
RECURSIVE TextUntilClose(_, _)
TextUntilClose(div, j) ==
    IF j > Len(div) \/ div[j] = H4Close THEN <<>>
    ELSE (IF div[j] \in Tags THEN <<>> ELSE <<div[j]>>)
         \o TextUntilClose(div, j + 1)

TextContent(div, h4) == TextUntilClose(div, h4 + 1)

IsPriceChar(ch) == IsDigit(ch) \/ ch = ","

RECURSIVE PriceRun(_, _)
PriceRun(s, j) ==
    IF j <= Len(s) /\ IsPriceChar(s[j]) THEN <<s[j]>> \o PriceRun(s, j + 1)
    ELSE <<>>

MatchesAt(s, i) ==
    /\ i + Len(PricePrefix) <= Len(s)
    /\ SubSeq(s, i, i + Len(PricePrefix) - 1) = PricePrefix
    /\ IsPriceChar(s[i + Len(PricePrefix)])

\* headerText.match(/(<prefix>[\d,]+)/): the leftmost, longest match; <<>> for null.
PriceMatch(s) ==
    IF \E i \in 1..Len(s) : MatchesAt(s, i)
    THEN LET i == CHOOSE k \in 1..Len(s) :
                    MatchesAt(s, k) /\ \A m \in 1..(k - 1) : ~MatchesAt(s, m)
         IN  PricePrefix \o PriceRun(s, i + Len(PricePrefix))
    ELSE <<>>

HeaderText(div, idx) ==
    LET h4 == QuerySelectorH4(div)
    IN  IF h4 # 0 THEN Trim(TextContent(div, h4))
        ELSE <<"Option ">> \o NumberToString(idx + 1)

PriceLabel(headerText) ==
    LET priceMatch == PriceMatch(headerText)
    IN  IF priceMatch # <<>> THEN PriceSeparator \o priceMatch ELSE <<>>

ChipLabel(div, idx) ==
    <<"Build ">> \o NumberToString(idx + 1) \o PriceLabel(HeaderText(div, idx))

----------------------------------------------------------------------------
\* DOM elements.  A message is a child of #chat: its classes ('message' and
\* the sender), its text node, its raw markup and its element children (the
\* chips wrapper, when there is one).

Thinking == <<"Thinking...">>
RequestFailed == <<"Request failed: ">>
TextHtml == <<"t", "e", "x", "t", "/", "h", "t", "m", "l">>

\* document.createElement('div') + classList.add + innerHTML / textContent
CreateMessage(id, sender, text, isHTML) ==
    [id |-> id, sender |-> sender,
     text |-> IF isHTML THEN <<>> ELSE text,
     html |-> IF isHTML THEN text ELSE <<>>,
     children |-> <<>>]

\* The mistake of adding the markup to what the element already holds.
SafeInnerHTMLKeepsChildren(container, html) ==
    [container EXCEPT !.text = <<>>, !.html = html]

\* container.innerHTML = html: the markup replaces whatever the element held.
SafeInnerHTML(container, html) ==
    [container EXCEPT !.text = <<>>, !.html = html, !.children = <<>>]

\* The mistake of leaving the node where it is.
RemoveNodeNever(nodes, id) == nodes

\* thinkingMsg.remove(); a node that is no longer in the chat is left alone.
RemoveNode(nodes, id) == SelectSeq(nodes, LAMBDA m : m.id # id)

NewDetails ==
    [text |-> <<>>, html |-> <<>>, children |-> <<>>, display |-> "none"]

NewWrapper == [chips |-> <<>>, details |-> NewDetails, hint |-> FALSE]

\* An earlier wrapper is removed, a fresh one is appended.
CreateBuildChipsArea(assistantMsg) ==
    [assistantMsg EXCEPT
        !.children = (IF @ # <<>> THEN Tail(@) ELSE @) \o <<NewWrapper>>]

\* The mistake of a closure over a shared variable: every chip shows the
\* first block.
AddChipOfFirstBlock(assistantMsg, html, k) ==
    LET div == OuterHTML(html, BuildDivs(html)[k])
        chip == [label |-> ChipLabel(div, k - 1), active |-> FALSE,
                 detailHtml |-> OuterHTML(html, BuildDivs(html)[1])]
    IN  [assistantMsg EXCEPT !.children[1].chips = Append(@, chip)]

\* One round of buildDivs.forEach: chip number k (from 1) and its closure.
AddChip(assistantMsg, html, k) ==
    LET div == OuterHTML(html, BuildDivs(html)[k])
        chip == [label |-> ChipLabel(div, k - 1), active |-> FALSE,
                 detailHtml |-> div]
    IN  [assistantMsg EXCEPT !.children[1].chips = Append(@, chip)]

RECURSIVE AddChips(_, _, _)
AddChips(assistantMsg, html, n) ==
    IF n = 0 THEN CreateBuildChipsArea(assistantMsg)
    ELSE AddChip(AddChips(assistantMsg, html, n - 1), html, n)

AddHint(assistantMsg) == [assistantMsg EXCEPT !.children[1].hint = TRUE]

HandleAssistantHtml(assistantMsg, html) ==
    IF Len(BuildDivs(html)) = 0 THEN SafeInnerHTML(assistantMsg, html)
    ELSE AddHint(AddChips(assistantMsg, html, Len(BuildDivs(html))))

\* Where handleAssistantHtml can be left by an exception: 1 in the parser or
\* in the fallback's assignment, 2 + k after the chips area and k chips.
ThrowPoints(html) ==
    IF Len(BuildDivs(html)) = 0 THEN {1} ELSE 1..(Len(BuildDivs(html)) + 2)

\* The message as the exception at point p leaves it.
ThrownAt(assistantMsg, html, p) ==
    IF p = 1 THEN assistantMsg ELSE AddChips(assistantMsg, html, p - 2)

\* The mistake of not clearing the chips selected before.
ClickChipKeepsOthers(assistantMsg, i) ==
    LET w == assistantMsg.children[1]
        details == [SafeInnerHTML(w.details, w.chips[i].detailHtml)
                        EXCEPT !.display = "block"]
    IN  [assistantMsg EXCEPT !.children[1].chips[i].active = TRUE,
                             !.children[1].details = details]

\* The click listener of chip i of a message.
ClickChip(assistantMsg, i) ==
    LET w == assistantMsg.children[1]
        cleared == [k \in 1..Len(w.chips) |-> [w.chips[k] EXCEPT !.active = FALSE]]
        chips == [cleared EXCEPT ![i].active = TRUE]
        details == [SafeInnerHTML(w.details, w.chips[i].detailHtml)
                        EXCEPT !.display = "block"]
    IN  [assistantMsg EXCEPT !.children[1].chips = chips,
                             !.children[1].details = details]

----------------------------------------------------------------------------
\* The textarea.

\* The mistake of rounding half the viewport height up.
AutoResizeTextareaRoundsUp(el, h, scrollH, innerH) ==
    IF ~el THEN h ELSE <<Min(scrollH, (innerH + 1) \div 2)>>

AutoResizeTextarea(el, h, scrollH, innerH) ==
    IF ~el THEN h ELSE <<Min(scrollH, innerH \div 2)>>

----------------------------------------------------------------------------
\* What the user, the browser and the server can supply.

Queries == {<<>>, <<" ", "\n">>, <<" ", "a", " ">>}
Suggestions == {<<"\t">>, <<" ", "a", " ">>}
Keys == {"Enter", "a"}
ScrollHeights == {48, 300}
InnerHeights == {95, 800}

PlainBody == <<"All parts are compatible.">>
NoBlockBody == <<"<p>", "No builds.", "</p>">>
\* Two blocks: the first header holds the peso sign and a price, the second
\* the three characters the regex of line 87 is written with.
TwoBlockBody ==
    <<"<p>", "intro", "</p>",
      DivBuildOption, H4Open, " ", "A", " ", PesoSign, "4", "5", ",", "0",
      H4Close, "<p>", "cpu", "</p>", DivClose,
      DivBuildOption, H4Open, "B", " ", "U+00E2", "U+201A", "U+00B1", "9",
      ",", "9", " ", "x", H4Close, DivClose>>
\* One block without an h4, which the parser has to close.
UnclosedBody == <<DivBuildOption, "<p>", "gpu", "</p>">>

Responses ==
    { [contentType |-> <<>>, body |-> PlainBody],
      [contentType |-> <<<<"t", "e", "x", "t", "/", "p", "l", "a", "i", "n">>>>,
       body |-> TwoBlockBody],
      [contentType |-> <<<<"t", "e", "x", "t", "/", "h", "t", "m">>>>,
       body |-> NoBlockBody],
      [contentType |-> <<<<"t", "e", "x", "t", "/", "h", "t", "m", "l", ";",
                          " ", "c", "h", "a", "r", "s", "e", "t", "=",
                          "u", "t", "f", "-", "8">>>>,
       body |-> NoBlockBody],
      [contentType |-> <<<<"T", "E", "X", "T", "/", "H", "T", "M", "L">>>>,
       body |-> TwoBlockBody],
      [contentType |-> <<<<"T", "e", "x", "t", "/", "H", "t", "m", "l">>>>,
       body |-> UnclosedBody] }

Errors == { [message |-> <<"Failed to fetch">>],
            [message |-> <<"The operation was aborted.">>] }

----------------------------------------------------------------------------
\* sendQuery.

\* res.headers.get('Content-Type') || ''
HeaderOrEmpty(contentType) ==
    IF contentType = <<>> THEN <<>> ELSE contentType[1]

\* The mistake of testing the query without trimming it.
IsBlankQueryUntrimmed(query) == query = <<>>

\* !query || !query.trim()
IsBlankQuery(query) == query = <<>> \/ Trim(query) = <<>>

\* ct.includes('text/html')
IsHtmlResponse(ct) == Includes(ct, TextHtml)

\* The mistake of reporting the error without removing the placeholder.
CatchRequestKeepsPlaceholder(nodes, thinkingMsg, id, err) ==
    Append(nodes, CreateMessage(id, "aria", RequestFailed \o err.message, FALSE))

\* The catch block: the placeholder goes, the error text is appended.
CatchRequest(nodes, thinkingMsg, id, err) ==
    Append(RemoveNode(nodes, thinkingMsg),
           CreateMessage(id, "aria", RequestFailed \o err.message, FALSE))

\* Lines 137-148 with the response text in hand; p = 0 when
\* handleAssistantHtml returns, else the point where it throws.
ShowResponse(nodes, thinkingMsg, id, ct, text, p) ==
    LET rest == RemoveNode(nodes, thinkingMsg)
        assistantMsg == CreateMessage(id, "aria", <<>>, TRUE)
    IN  IF IsHtmlResponse(ct)
        THEN Append(rest,
                    IF p = 0 THEN HandleAssistantHtml(assistantMsg, text)
                    ELSE SafeInnerHTML(ThrownAt(assistantMsg, text, p), text))
        ELSE Append(rest, CreateMessage(id, "aria", text, FALSE))

Init ==
    /\ inputPresent \in BOOLEAN
    /\ inputValue = <<>>
    /\ innerHeight \in InnerHeights
    /\ scrollHeight \in ScrollHeights
    /\ height = AutoResizeTextarea(inputPresent, <<>>, scrollHeight, innerHeight)
    /\ focusTimers = [raf |-> 0, timeout |-> 0]
    /\ chat = <<>>
    /\ calls = <<>>
    /\ nextId = 1
    /\ mon = [whitespaceSent |-> FALSE, blankEffect |-> FALSE, clicked |-> {}]

\* History only: every character of the query is white space (none, for
\* the empty query).
AllWhitespace(query) == \A i \in 1..Len(query) : query[i] \in Whitespace

SendQuery(query, sh) ==
    /\ IF IsBlankQuery(query)
       THEN UNCHANGED <<inputValue, height, scrollHeight, chat, calls, nextId>>
       ELSE /\ Len(calls) < MaxCalls
            /\ chat' = chat \o <<CreateMessage(nextId, "user", query, FALSE),
                                 CreateMessage(nextId + 1, "aria", Thinking, FALSE)>>
            /\ nextId' = nextId + 2
            /\ IF inputPresent
               THEN /\ inputValue' = <<>>
                    /\ scrollHeight' = sh
                    /\ height' = AutoResizeTextarea(inputPresent, height, sh, innerHeight)
               ELSE UNCHANGED <<inputValue, height, scrollHeight>>
            /\ calls' = Append(calls,
                   [query |-> query, stage |-> "fetch", thinkingMsg |-> nextId + 1,
                    header |-> <<>>, ct |-> <<>>, body |-> <<>>,
                    replies |-> <<>>, failedAt |-> "none", error |-> <<>>,
                    threw |-> "no"])
    /\ mon' = IF AllWhitespace(query)
              THEN [mon EXCEPT
                      !.whitespaceSent = @ \/ query # <<>>,
                      !.blankEffect = @ \/ chat' # chat \/ calls' # calls
                                        \/ inputValue' # inputValue]
              ELSE mon
    /\ UNCHANGED <<inputPresent, innerHeight, focusTimers>>

\* sh: the content height of the emptied textarea.
AskClick(sh) == SendQuery(IF inputPresent THEN inputValue ELSE <<>>, sh)

KeyDown(key, shiftKey, sh) ==
    /\ inputPresent
    /\ IF key = "Enter" /\ ~shiftKey THEN SendQuery(inputValue, sh)
       ELSE UNCHANGED vars

SuggestClick(text, sh) == SendQuery(text, sh)

\* The user edits the textarea; the 'input' listener runs.
InputEvent(value, sh) ==
    /\ inputPresent
    /\ inputValue' = value
    /\ scrollHeight' = sh
    /\ height' = AutoResizeTextarea(TRUE, height, sh, innerHeight)
    /\ UNCHANGED <<inputPresent, innerHeight, focusTimers, chat, calls, nextId, mon>>

\* The 'focus' listener (also after the pill's click handler calls
\* input.focus()): requestAnimationFrame, then setTimeout, then the resize.
FocusEvent ==
    /\ inputPresent
    /\ focusTimers.raf + focusTimers.timeout < MaxTimers
    /\ focusTimers' = [focusTimers EXCEPT !.raf = @ + 1]
    /\ UNCHANGED <<inputPresent, inputValue, height, innerHeight, scrollHeight,
                   chat, calls, nextId, mon>>

AnimationFrame ==
    /\ focusTimers.raf > 0
    /\ focusTimers' = [raf |-> focusTimers.raf - 1, timeout |-> focusTimers.timeout + 1]
    /\ UNCHANGED <<inputPresent, inputValue, height, innerHeight, scrollHeight,
                   chat, calls, nextId, mon>>

FocusTimeout ==
    /\ focusTimers.timeout > 0
    /\ focusTimers' = [focusTimers EXCEPT !.timeout = @ - 1]
    /\ height' = AutoResizeTextarea(inputPresent, height, scrollHeight, innerHeight)
    /\ UNCHANGED <<inputPresent, inputValue, innerHeight, scrollHeight,
                   chat, calls, nextId, mon>>

\* The window is resized; the 'resize' listener exists only with an input.
WindowResize(ih, sh) ==
    /\ innerHeight' = ih
    /\ scrollHeight' = sh
    /\ height' = AutoResizeTextarea(inputPresent, height, sh, ih)
    /\ UNCHANGED <<inputPresent, inputValue, focusTimers, chat, calls, nextId, mon>>

\* fetch resolves: line 134 runs, res.text() is awaited.
FetchResolve(c, res) ==
    /\ calls[c].stage = "fetch"
    /\ calls' = [calls EXCEPT ![c].stage = "text",
                              ![c].header = res.contentType,
                              ![c].ct = ToLowerCase(HeaderOrEmpty(res.contentType)),
                              ![c].body = res.body]
    /\ UNCHANGED <<inputPresent, inputValue, height, innerHeight, scrollHeight,
                   focusTimers, chat, nextId, mon>>

\* fetch or res.text() rejects: the catch block runs.
Reject(c, err) ==
    /\ calls[c].stage \in {"fetch", "text"}
    /\ chat' = CatchRequest(chat, calls[c].thinkingMsg, nextId, err)
    /\ nextId' = nextId + 1
    /\ calls' = [calls EXCEPT ![c].stage = "done",
                              ![c].failedAt = calls[c].stage,
                              ![c].error = err.message,
                              ![c].replies = Append(@, nextId)]
    /\ UNCHANGED <<inputPresent, inputValue, height, innerHeight, scrollHeight,
                   focusTimers, mon>>

\* res.text() resolves: lines 137-148 run.
TextResolve(c, p) ==
    /\ calls[c].stage = "text"
    /\ p = 0 \/ (IsHtmlResponse(calls[c].ct) /\ p \in ThrowPoints(calls[c].body))
    /\ chat' = ShowResponse(chat, calls[c].thinkingMsg, nextId, calls[c].ct,
                            calls[c].body, p)
    /\ nextId' = nextId + 1
    /\ calls' = [calls EXCEPT ![c].stage = "done",
                              ![c].threw = IF p = 0 THEN "no"
                                           ELSE IF p = 1 THEN "parser"
                                           ELSE "partway",
                              ![c].replies = Append(@, nextId)]
    /\ UNCHANGED <<inputPresent, inputValue, height, innerHeight, scrollHeight,
                   focusTimers, mon>>

ChipIndexes(msg) ==
    IF msg.children = <<>> THEN {} ELSE 1..Len(msg.children[1].chips)

\* A click on chip i of the m-th child of #chat.
ChipClick(m, i) ==
    /\ chat[m].children # <<>>
    /\ i \in ChipIndexes(chat[m])
    /\ chat' = [chat EXCEPT ![m] = ClickChip(@, i)]
    /\ mon' = [mon EXCEPT !.clicked =
                    {e \in @ : e[1] # chat[m].id} \cup {<<chat[m].id, i>>}]
    /\ UNCHANGED <<inputPresent, inputValue, height, innerHeight, scrollHeight,
                   focusTimers, calls, nextId>>

\* The plain answers: no .build-option block in the body.
PlainResponses == {r \in Responses : BuildDivs(r.body) = <<>>}

\* The layout of the specifications that leave the layout alone: one
\* viewport height, one content height, the focus does not move.
InitFixedLayout == Init /\ innerHeight = 800 /\ scrollHeight = 48

\* The chat under overlapping requests: queries are submitted whatever is
\* pending, requests settle in any order; the server's answers are plain.
Next ==
    \/ AskClick(scrollHeight)
    \/ \E key \in Keys, shiftKey \in BOOLEAN : KeyDown(key, shiftKey, scrollHeight)
    \/ \E text \in Suggestions : SuggestClick(text, scrollHeight)
    \/ \E value \in Queries : InputEvent(value, scrollHeight)
    \/ \E c \in 1..Len(calls), res \in PlainResponses : FetchResolve(c, res)
    \/ \E c \in 1..Len(calls), err \in Errors : Reject(c, err)
    \/ \E c \in 1..Len(calls) :
            \E p \in {0} \cup ThrowPoints(calls[c].body) : TextResolve(c, p)

Spec == InitFixedLayout /\ [][Next]_vars

\* The answers: every response, every exception of handleAssistantHtml,
\* every chip click; a query is submitted when the last one was answered.
NoneOutstanding == \A c \in 1..Len(calls) : calls[c].stage = "done"

NextHtml ==
    \/ NoneOutstanding /\ AskClick(scrollHeight)
    \/ NoneOutstanding /\ \E key \in Keys, shiftKey \in BOOLEAN :
                                KeyDown(key, shiftKey, scrollHeight)
    \/ NoneOutstanding /\ \E text \in Suggestions : SuggestClick(text, scrollHeight)
    \/ \E value \in Queries : InputEvent(value, scrollHeight)
    \/ \E c \in 1..Len(calls), res \in Responses : FetchResolve(c, res)
    \/ \E c \in 1..Len(calls), err \in Errors : Reject(c, err)
    \/ \E c \in 1..Len(calls) :
            \E p \in {0} \cup ThrowPoints(calls[c].body) : TextResolve(c, p)
    \/ \E m \in 1..Len(chat) : \E i \in ChipIndexes(chat[m]) : ChipClick(m, i)

SpecHtml == InitFixedLayout /\ [][NextHtml]_vars

\* The textarea: every layout event, overlapping requests; the server
\* answers without a Content-Type header or not at all.
TextResponses == {r \in Responses : r.contentType = <<>>}

NextTextarea ==
    \/ \E sh \in ScrollHeights : AskClick(sh)
    \/ \E key \in Keys, shiftKey \in BOOLEAN, sh \in ScrollHeights :
            KeyDown(key, shiftKey, sh)
    \/ \E text \in Suggestions, sh \in ScrollHeights : SuggestClick(text, sh)
    \/ \E value \in Queries, sh \in ScrollHeights : InputEvent(value, sh)
    \/ FocusEvent
    \/ AnimationFrame
    \/ FocusTimeout
    \/ \E ih \in InnerHeights, sh \in ScrollHeights : WindowResize(ih, sh)
    \/ \E c \in 1..Len(calls), res \in TextResponses : FetchResolve(c, res)
    \/ \E c \in 1..Len(calls), err \in Errors : Reject(c, err)
    \/ \E c \in 1..Len(calls) : TextResolve(c, 0)

SpecTextarea == Init /\ [][NextTextarea]_vars

----------------------------------------------------------------------------
\* Vocabulary of the properties.

Unsettled == {c \in 1..Len(calls) : calls[c].stage # "done"}

Succeeded == {c \in 1..Len(calls) :
                calls[c].stage = "done" /\ calls[c].failedAt = "none"}

Failed == {c \in 1..Len(calls) : calls[c].failedAt # "none"}

InChat(id) == \E k \in 1..Len(chat) : chat[k].id = id

\* The messages appended for call c once its request settled.
RepliesOf(c) ==
    {k \in 1..Len(chat) :
        \E r \in 1..Len(calls[c].replies) : chat[k].id = calls[c].replies[r]}

IsPlaceholder(m) == m.sender = "aria" /\ m.text = Thinking

Placeholders == {k \in 1..Len(chat) : IsPlaceholder(chat[k])}
AriaMessages == {k \in 1..Len(chat) : chat[k].sender = "aria"}
UserMessages == {k \in 1..Len(chat) : chat[k].sender = "user"}

SameLetter(a, b) ==
    a = b \/ \E i \in 1..Len(Upper) : {a, b} = {Upper[i], Lower[i]}

\* The header names text/html, in whatever case.
SaysHtml(header) ==
    /\ header # <<>>
    /\ \E i \in 1..Len(header[1]) :
         /\ i + Len(TextHtml) - 1 <= Len(header[1])
         /\ \A k \in 1..Len(TextHtml) : SameLetter(header[1][i + k - 1], TextHtml[k])

\* The positions of the .build-option blocks of a body, counted directly.
BlockStarts(body) == {j \in 1..Len(body) : body[j] = DivBuildOption}

NthBlockStart(body, i) ==
    CHOOSE j \in BlockStarts(body) :
        Cardinality({k \in BlockStarts(body) : k <= j}) = i

ActiveChips(m) ==
    {k \in 1..Len(m.children[1].chips) : m.children[1].chips[k].active}

IsRawHtml(m, body) == m.text = <<>> /\ m.html = body /\ m.children = <<>>

IsPrefix(p, s) == Len(p) <= Len(s) /\ SubSeq(s, 1, Len(p)) = p

\* A currency sign directly followed by a digit or a comma.
HasPrice(header) ==
    \E i \in 1..(Len(header) - 1) :
        header[i] = PesoSign /\ IsPriceChar(header[i + 1])

----------------------------------------------------------------------------
\* C1: at most one request to /api/check-compatibility is outstanding at any
\* time, whatever the clicks and key presses.
C1_SingleOutstanding == Cardinality(Unsettled) <= 1

\* C2: a sendQuery call whose request failed has returned, its placeholder is
\* gone, and exactly one message was appended for it: a plain-text 'aria'
\* message 'Request failed: ' followed by the error's message.
C2_FailureShownOnce ==
    \A c \in Failed :
        /\ calls[c].stage = "done"
        /\ ~InChat(calls[c].thinkingMsg)
        /\ Len(calls[c].replies) = 1
        /\ Cardinality(RepliesOf(c)) = 1
        /\ \A k \in RepliesOf(c) :
             /\ chat[k].sender = "aria"
             /\ chat[k].text = RequestFailed \o calls[c].error
             /\ chat[k].html = <<>>
             /\ chat[k].children = <<>>

\* Reading the body of a response rejected, after the fetch had resolved.
C2_Witness ==
    \E c \in Failed : calls[c].failedAt = "text" /\ calls[c].header # <<>>

\* C3: a response that arrived is shown by exactly one 'aria' message; it
\* went the HTML way exactly when its Content-Type names text/html in any
\* case, and is plain text with the body as its text otherwise, also
\* without a header.
C3_ContentTypeDecides ==
    \A c \in Succeeded :
        /\ Cardinality(RepliesOf(c)) = 1
        /\ \A k \in RepliesOf(c) :
             /\ chat[k].sender = "aria"
             /\ IF SaysHtml(calls[c].header)
                THEN chat[k].text = <<>>
                     /\ (chat[k].html = calls[c].body \/ chat[k].children # <<>>)
                ELSE chat[k].text = calls[c].body
                     /\ chat[k].html = <<>> /\ chat[k].children = <<>>

\* An upper-case TEXT/HTML was taken as HTML, a response without the header
\* as text.
C3_Witness ==
    /\ \E c \in Succeeded :
         /\ calls[c].header = <<<<"T", "E", "X", "T", "/", "H", "T", "M", "L">>>>
         /\ \E k \in RepliesOf(c) : chat[k].children # <<>>
    /\ \E c \in Succeeded :
         /\ calls[c].header = <<>>
         /\ \E k \in RepliesOf(c) : chat[k].text = calls[c].body

\* C4: an HTML response without a .build-option block, or one on which
\* handleAssistantHtml threw, is shown as the raw response HTML: no chips
\* wrapper, chip, details area or hint.
C4_RawHtmlFallback ==
    \A c \in Succeeded :
        (SaysHtml(calls[c].header)
            /\ (BlockStarts(calls[c].body) = {} \/ calls[c].threw # "no"))
        => \A k \in RepliesOf(c) : IsRawHtml(chat[k], calls[c].body)

\* handleAssistantHtml threw after it had built the chips area, and another
\* response had no block at all.
C4_Witness ==
    /\ \E c \in Succeeded :
         calls[c].threw = "partway" /\ Cardinality(BlockStarts(calls[c].body)) = 2
    /\ \E c \in Succeeded :
         /\ SaysHtml(calls[c].header)
         /\ BlockStarts(calls[c].body) = {}
         /\ calls[c].threw = "no"

\* C5: an HTML response with n >= 1 blocks, handled without an exception,
\* has n chips; the label of chip i starts with 'Build i'; the details area
\* of a message whose chip i is the one selected holds the outer HTML of
\* block i.
C5_ChipsFollowBlocks ==
    \A c \in Succeeded :
        (SaysHtml(calls[c].header) /\ BlockStarts(calls[c].body) # {}
            /\ calls[c].threw = "no")
        => \A k \in RepliesOf(c) :
             /\ chat[k].children # <<>>
             /\ LET w == chat[k].children[1]
                    body == calls[c].body
                IN  /\ Len(w.chips) = Cardinality(BlockStarts(body))
                    /\ \A i \in 1..Len(w.chips) :
                         /\ IsPrefix(<<"Build ">> \o NumberToString(i),
                                     w.chips[i].label)
                         /\ w.chips[i].active =>
                              w.details.html = OuterHTML(body, NthBlockStart(body, i))

\* The second chip of a two-block response was clicked.
C5_Witness ==
    \E k \in 1..Len(chat) :
        /\ chat[k].children # <<>>
        /\ Len(chat[k].children[1].chips) = 2
        /\ ActiveChips(chat[k]) = {2}
        /\ chat[k].children[1].details.display = "block"

\* C6: in a message at most one chip is active; a message in which no chip
\* was clicked has none active and its details hidden; otherwise exactly the
\* chip clicked last is active and the details area is visible and holds
\* that chip's block, whatever was clicked in other messages.
C6_SingleSelection ==
    \A k \in 1..Len(chat) :
        chat[k].children # <<>> =>
            LET w == chat[k].children[1]
                last == {e \in mon.clicked : e[1] = chat[k].id}
            IN  /\ Cardinality(ActiveChips(chat[k])) <= 1
                /\ last = {} =>
                     /\ ActiveChips(chat[k]) = {}
                     /\ w.details.display = "none"
                     /\ w.details.html = <<>>
                /\ \A e \in last :
                     /\ ActiveChips(chat[k]) = {e[2]}
                     /\ w.details.display = "block"
                     /\ w.details.html = w.chips[e[2]].detailHtml

\* Two messages with chips: in the first a chip is selected, in the second,
\* with two chips, the first chip is (after its second chip or not).
C6_Witness ==
    \E k1, k2 \in 1..Len(chat) :
        /\ k1 < k2
        /\ chat[k1].children # <<>> /\ chat[k2].children # <<>>
        /\ Cardinality(ActiveChips(chat[k1])) = 1
        /\ Len(chat[k2].children[1].chips) = 2
        /\ ActiveChips(chat[k2]) = {1}

\* C7: the label of chip i is 'Build i', a separator and the price exactly
\* when the header text of block i holds the currency sign followed by
\* digits or commas, and exactly 'Build i' otherwise.
C7_PriceLabel ==
    \A k \in 1..Len(chat) :
        chat[k].children # <<>> =>
            \A i \in 1..Len(chat[k].children[1].chips) :
                LET chip == chat[k].children[1].chips[i]
                    header == HeaderText(chip.detailHtml, i - 1)
                    plain == <<"Build ">> \o NumberToString(i)
                IN  IF HasPrice(header)
                    THEN IsPrefix(plain, chip.label) /\ Len(chip.label) > Len(plain)
                         /\ \E j \in 1..Len(chip.label) : chip.label[j] = PesoSign
                    ELSE chip.label = plain

C9_PlaceholderPerPendingCall ==
    /\ Cardinality(Placeholders) = Cardinality(Unsettled)
    /\ Cardinality(AriaMessages) = Cardinality(UserMessages)
    /\ \A c \in Unsettled :
         \E k \in 1..(Len(chat) - 1) :
            /\ chat[k].sender = "user" /\ chat[k].text = calls[c].query
            /\ chat[k + 1].id = calls[c].thinkingMsg
            /\ IsPlaceholder(chat[k + 1])
    /\ \A c \in 1..Len(calls) :
         c \notin Unsettled =>
            ~InChat(calls[c].thinkingMsg) /\ Cardinality(RepliesOf(c)) = 1

\* Two calls overlapped and the later one was answered first.
C9_Witness ==
    /\ Len(calls) = 2
    /\ Unsettled = {}
    /\ calls[2].replies[1] < calls[1].replies[1]

\* C10: no sendQuery call with an empty or all-white-space query ever changed
\* the chat, started a request or changed the input's value.
C10_BlankQueryDoesNothing == ~mon.blankEffect

\* A white-space query was submitted and is still the input's value, with a
\* request of an earlier query pending.
C10_Witness ==
    /\ mon.whitespaceSent
    /\ inputValue = <<" ", "\n">>
    /\ Unsettled # {}

====
